---- MODULE Spec2Model ----
(***************************************************************************)
(* Farey / mediant approximation (src/src/main.rs).                        *)
(*                                                                         *)
(* The program's integers are u64 and its reals are f64.  Both are         *)
(* modelled at reduced width: an unsigned word of WordBits bits (wrapping  *)
(* modulo 2^WordBits in a release build, panicking in a debug build) and   *)
(* a binary float with MantBits significant bits, round-to-nearest-even,   *)
(* and an exponent range wide enough that no quotient of two words         *)
(* overflows or underflows (as for u64 and f64).  A finite float is held   *)
(* as a signed count of units of 2^-FracBits.                              *)
(***************************************************************************)
EXTENDS Integers, Naturals, Sequences, FiniteSets, TLC

\* Width of the unsigned word that stands for u64.
WordBits == 6
\* Number of significant bits of the float that stands for f64 (53 there).
MantBits == 5
\* Cap on the number of loop iterations explored per call.
MaxIter == 70

\* Operands of the direct mediant calls: words up to ProbeLow, and words
\* within ProbeEdge of half the range and of its top.
ProbeLow == 7
ProbeEdge == 2

RECURSIVE Pow2(_)
Pow2(n) == IF n <= 0 THEN 1 ELSE 2 * Pow2(n - 1)

\* Number of bits of a natural number (0 for 0).
RECURSIVE BitLen(_)
BitLen(k) == IF k <= 0 THEN 0 ELSE 1 + BitLen(k \div 2)

Abs(i) == IF i < 0 THEN -i ELSE i

RECURSIVE GCD(_, _)
GCD(a, b) == IF b = 0 THEN a ELSE GCD(b, a % b)

\* u64: 0 .. U64Max, arithmetic modulo Modulus.
Modulus == Pow2(WordBits)
U64Max == Modulus - 1
U64 == 0 .. U64Max

\* Fixed-point scale in which finite floats are held: 1.0 is One units.
FracBits == WordBits + MantBits
One == Pow2(FracBits)

\* f64::EPSILON = 2^-(significant bits - 1), in units.
EPSILON == Pow2(FracBits - MantBits + 1)

\* Round a non-negative magnitude to MantBits significant bits, ties to even.
RoundSig(k) ==
    IF k < Pow2(MantBits) THEN k
    ELSE LET s == BitLen(k) - MantBits
             u == Pow2(s)
             q == k \div u
             r == k % u
             up == (2 * r > u) \/ (2 * r = u /\ q % 2 = 1)
         IN  (IF up THEN q + 1 ELSE q) * u

\* `n as f64` for a u64 n: the nearest float (an integer count, not units).
U64ToF64(n) == RoundSig(n)

\* a / b for two floats holding non-negative integers, b > 0: the correctly
\* rounded quotient, in units.
DivF64(a, b) ==
    IF a = 0 THEN 0
    ELSE LET Q == a * One
             t == Q \div b
             s == IF BitLen(t) > MantBits THEN BitLen(t) - MantBits ELSE 0
             u == b * Pow2(s)
             q == Q \div u
             r == Q % u
             up == (2 * r > u) \/ (2 * r = u /\ q % 2 = 1)
         IN  (IF up THEN q + 1 ELSE q) * Pow2(s)

\* f64 values: finite (v units), NaN, +/- infinity (v is the sign).
Finite(v) == [cls |-> "finite", v |-> v]
NaN == [cls |-> "nan", v |-> 0]
Inf(sgn) == [cls |-> "inf", v |-> sgn]

\* Largest finite magnitude drawn as a target: 2^(WordBits+1), beyond u64.
MaxTargetUnits == 2 * Modulus * One

\* Every non-negative magnitude a float of MantBits bits can hold.
FloatMagnitudes ==
    { k \in { m * Pow2(e) : m \in 0 .. Pow2(MantBits) - 1,
                            e \in 0 .. WordBits + FracBits + 2 - MantBits } :
        k <= MaxTargetUnits }

\* The f64 arguments the command line can pass to farey.
Targets ==
    { Finite(k) : k \in FloatMagnitudes } \cup
    { Finite(-k) : k \in FloatMagnitudes } \cup
    { NaN, Inf(1), Inf(-1) }

\* Fractions and the results of the fallible operations.
Frac(n, d) == [numerator |-> n, denominator |-> d]
NoFraction == Frac(0, 0)
Ok(f) == [kind |-> "Ok", frac |-> f]
DivByZeroError == [kind |-> "DivByZeroError", frac |-> NoFraction]
Panic == [kind |-> "panic", frac |-> NoFraction]
NoResult == [kind |-> "none", frac |-> NoFraction]


(***************************************************************************)
(* Fraction                                                                *)
(***************************************************************************)

\* Fraction::new with the zero test on the wrong field.
NewTestsNumerator(numerator, denominator) ==
    IF numerator = 0 THEN DivByZeroError
    ELSE Ok(Frac(numerator, denominator))

\* Fraction::new
New(numerator, denominator) ==
    IF denominator = 0 THEN DivByZeroError
    ELSE Ok(Frac(numerator, denominator))

\* Fraction::value: numerator as f64 / denominator as f64 (denominator > 0).
Value(f) == DivF64(U64ToF64(f.numerator), U64ToF64(f.denominator))

\* Whether a u64 addition leaves the range of the word.
AddOverflows(x, y) == x + y > U64Max

\* u64 `+` in a release build.
WrappingAdd(x, y) == (x + y) % Modulus

\* Fraction::mediant adding other's numerator into the denominator.
MediantMixedFields(a, b, checks) ==
    IF checks /\ (AddOverflows(a.numerator, b.numerator)
                  \/ AddOverflows(a.denominator, b.numerator))
    THEN Panic
    ELSE New(WrappingAdd(a.numerator, b.numerator),
             WrappingAdd(a.denominator, b.numerator))

\* Fraction::mediant.  With overflow checks (a debug build) an overflowing
\* `+` panics; without them (a release build) the sum wraps.
Mediant(a, b, checks) ==
    IF checks /\ (AddOverflows(a.numerator, b.numerator)
                  \/ AddOverflows(a.denominator, b.denominator))
    THEN Panic
    ELSE New(WrappingAdd(a.numerator, b.numerator),
             WrappingAdd(a.denominator, b.denominator))

(***************************************************************************)
(* f64 operations used by farey                                            *)
(***************************************************************************)

\* f64::floor
FloorF64(x) ==
    IF x.cls = "finite" THEN Finite((x.v \div One) * One) ELSE x

\* f64::ceil
CeilF64(x) ==
    IF x.cls = "finite" THEN Finite((0 - ((0 - x.v) \div One)) * One) ELSE x

\* `x as u64`: a saturating cast, NaN to 0.
F64ToU64(x) ==
    CASE x.cls = "nan" -> 0
      [] x.cls = "inf" -> IF x.v > 0 THEN U64Max ELSE 0
      [] OTHER -> IF x.v < 0 THEN 0
                  ELSE IF x.v \div One > U64Max THEN U64Max
                  ELSE x.v \div One

\* (real_number - mediant_value).abs() < f64::EPSILON
Converged(x, mv) ==
    /\ x.cls = "finite"
    /\ RoundSig(Abs(x.v - mv)) < EPSILON

\* The comparison written the wrong way round.
GreaterFlipped(mv, x) ==
    CASE x.cls = "nan" -> FALSE
      [] x.cls = "inf" -> x.v > 0
      [] OTHER -> mv < x.v

\* mediant_value > real_number
Greater(mv, x) ==
    CASE x.cls = "nan" -> FALSE
      [] x.cls = "inf" -> x.v < 0
      [] OTHER -> mv > x.v

(***************************************************************************)
(* State                                                                   *)
(***************************************************************************)
VARIABLES
    overflow_checks,  \* the build: TRUE debug (overflow panics), FALSE release
    pc,               \* position in farey
    real_number,      \* farey's argument
    left, right,      \* the bound pair
    mediant,          \* this iteration's mediant
    mediant_value,    \* its value, in units
    stdout,           \* the trace lines printed so far
    result,           \* what farey returned
    iter,             \* iterations whose mediant was computed
    overflowed,       \* some mediant sum left the u64 range
    probe             \* a direct call of Fraction::new or Fraction::mediant

vars == << overflow_checks, pc, real_number, left, right, mediant,
           mediant_value, stdout, result, iter, overflowed, probe >>

fareyVars == << pc, real_number, left, right, mediant, mediant_value,
                stdout, result, iter, overflowed >>

NoProbe == [op |-> "none"]

Init ==
    /\ overflow_checks \in BOOLEAN
    /\ pc = "idle"
    /\ real_number = NaN
    /\ left = NoFraction
    /\ right = NoFraction
    /\ mediant = NoFraction
    /\ mediant_value = 0
    /\ stdout = << >>
    /\ result = NoResult
    /\ iter = 0
    /\ overflowed = FALSE
    /\ probe = NoProbe

(***************************************************************************)
(* farey                                                                   *)
(***************************************************************************)

\* farey's entry: the two bounds are built from floor and ceil of the argument.
Farey(x) ==
    /\ pc = "idle"
    /\ LET l == New(F64ToU64(FloorF64(x)), 1)
           r == New(F64ToU64(CeilF64(x)), 1)
       IN  /\ real_number' = x
           /\ IF l.kind = "Ok" /\ r.kind = "Ok"
              THEN /\ left' = l.frac
                   /\ right' = r.frac
                   /\ pc' = "mediant"
                   /\ result' = result
              ELSE /\ UNCHANGED << left, right >>
                   /\ pc' = "err"
                   /\ result' = DivByZeroError
    /\ UNCHANGED << overflow_checks, mediant, mediant_value, stdout, iter,
                    overflowed, probe >>

\* let mediant = left.mediant(&right)?; let mediant_value = mediant.value();
ComputeMediant ==
    /\ pc = "mediant"
    /\ iter < MaxIter
    /\ LET m == Mediant(left, right, overflow_checks)
       IN  /\ overflowed' = (overflowed
                             \/ AddOverflows(left.numerator, right.numerator)
                             \/ AddOverflows(left.denominator, right.denominator))
           /\ CASE m.kind = "Ok" ->
                     /\ mediant' = m.frac
                     /\ mediant_value' = Value(m.frac)
                     /\ iter' = iter + 1
                     /\ pc' = "trace"
                     /\ result' = result
                [] m.kind = "DivByZeroError" ->
                     /\ UNCHANGED << mediant, mediant_value, iter >>
                     /\ pc' = "err"
                     /\ result' = m
                [] OTHER ->
                     /\ UNCHANGED << mediant, mediant_value, iter >>
                     /\ pc' = "panic"
                     /\ result' = m
    /\ UNCHANGED << overflow_checks, real_number, left, right, stdout, probe >>

\* println!("$ frac({},{}) <- {} -> frac({},{}) $", ...)
EmitTrace ==
    /\ pc = "trace"
    /\ stdout' = Append(stdout, [left |-> left, value |-> mediant_value,
                                 right |-> right])
    /\ pc' = "test"
    /\ UNCHANGED << overflow_checks, real_number, left, right, mediant,
                    mediant_value, result, iter, overflowed, probe >>

\* if (real_number - mediant_value).abs() < f64::EPSILON { return Ok(mediant); }
ConvergenceTest ==
    /\ pc = "test"
    /\ IF Converged(real_number, mediant_value)
       THEN /\ result' = Ok(mediant)
            /\ pc' = "done"
       ELSE /\ result' = result
            /\ pc' = "bisect"
    /\ UNCHANGED << overflow_checks, real_number, left, right, mediant,
                    mediant_value, stdout, iter, overflowed, probe >>

\* The bisection with the two assignments exchanged.
BisectExchanged ==
    /\ pc = "bisect"
    /\ IF Greater(mediant_value, real_number)
       THEN /\ left' = mediant
            /\ right' = right
       ELSE /\ right' = mediant
            /\ left' = left
    /\ pc' = "mediant"
    /\ UNCHANGED << overflow_checks, real_number, mediant, mediant_value,
                    stdout, result, iter, overflowed, probe >>

\* if mediant_value > real_number { right = mediant; } else { left = mediant; }
Bisect ==
    /\ pc = "bisect"
    /\ IF Greater(mediant_value, real_number)
       THEN /\ right' = mediant
            /\ left' = left
       ELSE /\ left' = mediant
            /\ right' = right
    /\ pc' = "mediant"
    /\ UNCHANGED << overflow_checks, real_number, mediant, mediant_value,
                    stdout, result, iter, overflowed, probe >>

Next ==
    \/ \E x \in Targets : Farey(x)
    \/ ComputeMediant
    \/ EmitTrace
    \/ ConvergenceTest
    \/ Bisect

Spec == Init /\ [][Next]_vars

(***************************************************************************)
(* Direct calls of the Fraction operations                                 *)
(***************************************************************************)

\* Fraction::new(n, d) on any two words.
CallNew(n, d) ==
    /\ probe' = [op |-> "new", n |-> n, d |-> d, out |-> New(n, d)]
    /\ UNCHANGED << overflow_checks, fareyVars >>

NextNew ==
    /\ probe = NoProbe
    /\ \E n \in U64, d \in U64 : CallNew(n, d)

SpecNew == Init /\ [][NextNew]_vars

\* a.mediant(&b) on any two live Fractions (denominators positive).
CallMediant(a, b) ==
    /\ probe' = [op |-> "mediant", a |-> a, b |-> b,
                 out |-> Mediant(a, b, overflow_checks)]
    /\ UNCHANGED << overflow_checks, fareyVars >>

\* The words the operands are drawn from: the smallest ones, the ones around
\* half the range and the largest ones.
ProbeWords ==
    { w \in U64 : \/ w <= ProbeLow
                  \/ w >= U64Max - ProbeEdge
                  \/ (w >= Modulus \div 2 - ProbeEdge
                        /\ w <= Modulus \div 2 + ProbeEdge) }

LiveFractions == { Frac(n, d) : n \in ProbeWords, d \in ProbeWords \ {0} }

NextMediant ==
    /\ probe = NoProbe
    /\ \E a \in LiveFractions, b \in LiveFractions : CallMediant(a, b)

SpecMediant == Init /\ [][NextMediant]_vars


(***************************************************************************)
(* Properties                                                              *)
(***************************************************************************)

\* The argument farey's contract admits: finite, non-negative, integer part
\* within u64.
ValidTarget(x) ==
    /\ x.cls = "finite"
    /\ x.v >= 0
    /\ x.v \div One <= U64Max

\* A finite value with no fractional part.
Whole(x) == x.cls = "finite" /\ x.v % One = 0

StrictlyBetween(m, p, q) == (p < m /\ m < q) \/ (q < m /\ m < p)

\* C1: Fraction::new(n, 0) fails with DivByZeroError for every n, and for
\* every d # 0 Fraction::new(n, d) succeeds with numerator exactly n and
\* denominator exactly d.
C1_ConstructionGate ==
    probe.op = "new" =>
        IF probe.d = 0
        THEN probe.out = DivByZeroError
        ELSE /\ probe.out.kind = "Ok"
             /\ probe.out.frac.numerator = probe.n
             /\ probe.out.frac.denominator = probe.d

\* A call with a non-zero numerator and a zero denominator was rejected.
C1_Witness ==
    /\ probe.op = "new"
    /\ probe.n = U64Max
    /\ probe.d = 0
    /\ probe.out.kind = "DivByZeroError"

\* C2: for a whole-number target n, farey returns the Fraction n/1.
C2_IntegerExactness ==
    (pc = "done" /\ ValidTarget(real_number) /\ Whole(real_number)) =>
        result = Ok(Frac(real_number.v \div One, 1))

\* C3: for two Fractions a, b with positive denominators and different
\* values the value of their mediant lies strictly between the two values,
\* and the value of mediant(a, a) equals the value of a.
C3_MediantBracketing ==
    probe.op = "mediant" =>
        /\ (Value(probe.a) # Value(probe.b) =>
                /\ probe.out.kind = "Ok"
                /\ StrictlyBetween(Value(probe.out.frac),
                                   Value(probe.a), Value(probe.b)))
        /\ (probe.a = probe.b =>
                /\ probe.out.kind = "Ok"
                /\ Value(probe.out.frac) = Value(probe.a))

\* C4: at the start of every loop iteration of a call with an admissible
\* target, value(left) <= target <= value(right).
C4_BoundPair ==
    (pc = "mediant" /\ ValidTarget(real_number)) =>
        /\ Value(left) <= real_number.v
        /\ real_number.v <= Value(right)

\* An iteration starts after both bounds have been replaced by mediants and
\* the target lies strictly inside them.
C4_Witness ==
    /\ pc = "mediant"
    /\ ValidTarget(real_number)
    /\ iter >= 2
    /\ left.denominator > 1
    /\ right.denominator > 1
    /\ Value(left) < real_number.v
    /\ real_number.v < Value(right)

\* C5: for every admissible target farey returns a Fraction, and the value of
\* that Fraction is within machine epsilon of the target.
C5_RoundTrip ==
    (ValidTarget(real_number) /\ pc \in {"done", "err", "panic"}) =>
        /\ pc = "done"
        /\ result.kind = "Ok"
        /\ Abs(Value(result.frac) - real_number.v) < EPSILON

\* C6: once a mediant sum has left the u64 range the call has failed with
\* ArithmeticOverflow; no wrapped sum is kept, stored as a bound or returned.
C6_OverflowContainment ==
    overflowed =>
        /\ pc = "err"
        /\ result.kind = "ArithmeticOverflow"

\* C7: a call whose target is negative, not finite or beyond u64 fails with
\* InvalidInput before the bounds are set, with no iteration and no trace.
C7_InvalidInputRejected ==
    (pc # "idle" /\ ~ValidTarget(real_number)) =>
        /\ pc = "err"
        /\ result.kind = "InvalidInput"
        /\ left = NoFraction
        /\ right = NoFraction
        /\ iter = 0
        /\ stdout = << >>

\* C8: a call is either searching or converged; it leaves the loop only by
\* the convergence test succeeding, returning that iteration's mediant, and
\* never through an error (or abort) of a mediant step.
C8_StateMachine ==
    (pc # "idle" /\ ValidTarget(real_number)) =>
        /\ pc \in {"mediant", "trace", "test", "bisect", "done"}
        /\ (pc = "done" =>
                /\ Converged(real_number, mediant_value)
                /\ result = Ok(mediant))

\* The bound pair that follows trace record rec under the bisection rule.
BisectionOf(rec) ==
    LET m == Frac(WrappingAdd(rec.left.numerator, rec.right.numerator),
                  WrappingAdd(rec.left.denominator, rec.right.denominator))
    IN  IF Greater(rec.value, real_number)
        THEN [left |-> rec.left, right |-> m]
        ELSE [left |-> m, right |-> rec.right]

\* C9: every iteration whose mediant was computed prints exactly one trace
\* record (left, mediant value, right) before its convergence test, in
\* iteration order; every non-converging iteration replaces exactly one bound
\* by its mediant (right when the mediant value exceeds the target, left
\* otherwise) and leaves the other unchanged, so consecutive records differ
\* in exactly the bound the bisection chose.
C9_TraceAndBisection ==
    /\ (pc = "trace" => Len(stdout) = iter - 1)
    /\ (pc \in {"mediant", "test", "bisect", "done"} => Len(stdout) = iter)
    /\ (pc \in {"test", "bisect", "done"} =>
            stdout[iter] = [left |-> left, value |-> mediant_value,
                            right |-> right])
    /\ \A i \in 1 .. Len(stdout) - 1 :
            LET nxt == BisectionOf(stdout[i])
            IN  /\ stdout[i + 1].left = nxt.left
                /\ stdout[i + 1].right = nxt.right
                /\ (stdout[i + 1].left = stdout[i].left)
                       # (stdout[i + 1].right = stdout[i].right)
    /\ (pc = "mediant" /\ iter >= 1 =>
            LET nxt == BisectionOf(stdout[iter])
            IN  /\ left = nxt.left
                /\ right = nxt.right
                /\ (left = stdout[iter].left) # (right = stdout[iter].right))

\* Three or more records were printed, the left bound was narrowed in one
\* step and the right bound in another.
C9_Witness ==
    /\ pc = "mediant"
    /\ Len(stdout) >= 3
    /\ \E i \in 1 .. Len(stdout) - 1 : stdout[i + 1].left # stdout[i].left
    /\ \E j \in 1 .. Len(stdout) - 1 : stdout[j + 1].right # stdout[j].right

\* C10: for an admissible non-whole target, while no sum has overflowed,
\* right.numerator * left.denominator - left.numerator * right.denominator = 1
\* throughout the loop; every mediant computed, and the Fraction returned,
\* is in lowest terms, and its denominator is left.denominator +
\* right.denominator, greater than both.
C10_SternBrocotAdjacency ==
    (pc # "idle" /\ ValidTarget(real_number) /\ ~Whole(real_number)
      /\ ~overflowed) =>
        /\ right.numerator * left.denominator
             - left.numerator * right.denominator = 1
        /\ (pc \in {"trace", "test", "bisect", "done"} =>
                /\ GCD(mediant.numerator, mediant.denominator) = 1
                /\ mediant.denominator = left.denominator + right.denominator
                /\ mediant.denominator > left.denominator
                /\ mediant.denominator > right.denominator)
        /\ (pc = "done" =>
                /\ result.kind = "Ok"
                /\ GCD(result.frac.numerator, result.frac.denominator) = 1)

\* A non-whole target converged after at least three iterations.
C10_Witness ==
    /\ pc = "done"
    /\ ValidTarget(real_number)
    /\ ~Whole(real_number)
    /\ ~overflowed
    /\ iter >= 3
    /\ result.kind = "Ok"

====
